---- MODULE Spec2Model ----
(***************************************************************************)
(* Opening-range-breakout evaluator, scripts/orb_nq.py.                    *)
(*                                                                         *)
(* One session date.  The bar source holds today's 1-minute bars         *)
(* (today_df); the script is invoked again and again, each invocation      *)
(* loading the persisted TradeState, folding the bars newer than           *)
(* last_processed_ts into it and saving it.  Invocations are serialized    *)
(* (one process at a time), so the local variables of main() are plain     *)
(* variables of the model and pc is main()'s position.                     *)
(*                                                                         *)
(* Timestamps are minutes since midnight (exchange time), prices are whole *)
(* index points.  A bar is [ts, h, l, c]; the bar's Open is read at        *)
(* line 257 but never used, so it is not carried.                          *)
(***************************************************************************)
EXTENDS Integers, Sequences, FiniteSets

VARIABLES
    today_df,     \* today's bars as fetched (line 212), oldest first
    stateFile,    \* state_<date>.json: <<>> when absent, <<TradeState>> otherwise
    tradeLog,     \* trades_<date>.csv, one row per append_trade_log call
    summary,      \* summary_last_10_days.csv, deduplicated by date
    latest,       \* "status" of latest.json
    pc,           \* position of main(): "idle", "loop", "manage"
    st,           \* main()'s in-memory TradeState
    candles,      \* the candles main() still has to iterate
    long_level,   \* main()'s local long_level
    short_level,  \* main()'s local short_level
    weekday,      \* now.weekday() of the session date, 0 = Monday
    exit          \* how the last invocation ended: "ok", or where it died

vars == <<today_df, stateFile, tradeLog, summary, latest, pc, st, candles,
          long_level, short_level, weekday, exit>>

\* ----------------------------------------------------------------- bounds
\* Longest bar feed explored.
MaxBars == 3
\* Most bars of a feed whose high differs from their low.
MaxWide == 1

\* Price levels a bar may touch: 15 and 20 points apart, so that the trail
\* distance, the breakeven trigger and the take-profit are all reachable.
Prices == {80, 85, 100, 105}

\* -------------------------------------------------------------- constants
OPENING_RANGE_MINUTES == 15
TRADING_WINDOW_MINUTES == 390
OFFSET_POINTS == 2
TRAIL_DISTANCE_POINTS == 15
TAKE_PROFIT_POINTS == 20
BREAKEVEN_TRIGGER_POINTS == 15
POINT_VALUE == 20

\* Optional[...] fields: None is the empty tuple, a value v is <<v>>.
None == <<>>
Some(v) == <<v>>
Val(o) == o[1]

Max(a, b) == IF a >= b THEN a ELSE b
Min(a, b) == IF a <= b THEN a ELSE b

\* session_times(d): minutes since midnight.
SessionOpen == 9 * 60 + 30
SessionClose == 16 * 60
OrbEnd == SessionOpen + OPENING_RANGE_MINUTES
TradeStart == OrbEnd
TradeEnd == Min(SessionOpen + TRADING_WINDOW_MINUTES, SessionClose)

\* Timestamps a bar may carry: inside the opening range, at and after
\* trade_start, at and after trade_end.  Missing minutes are gaps in the
\* feed.
Times == {SessionOpen, TradeStart, TradeStart + 1, TradeEnd, TradeEnd + 1}

Bars == {b \in [ts : Times, h : Prices, l : Prices, c : Prices] :
            b.l <= b.c /\ b.c <= b.h}
Wide(df) == {i \in 1..Len(df) : df[i].h # df[i].l}

\* ts.isoformat(): the text "HH:MM" as the pair <<HH, MM>>.
IsoFormat(ts) == <<ts \div 60, ts % 60>>
\* datetime.fromisoformat(s), back to minutes since midnight.
FromIsoFormat(s) == s[1] * 60 + s[2]

\* TradeState(session_date=...), the dataclass defaults.
DefaultState ==
    [session_date |-> "today", trade_executed |-> FALSE,
     trade_open |-> FALSE, direction |-> "None", entry_time |-> None,
     entry_price |-> None, stop_price |-> None,
     watermark_price |-> None, be_triggered |-> FALSE,
     last_processed_ts |-> None]

\* A state file json.load cannot parse (empty or cut short).
Corrupt == [corrupt |-> TRUE]

\* load_state(d): json.load raises on a file it cannot parse, and nothing
\* catches it.
LoadRaises(file) == file # <<>> /\ file[1] = Corrupt
LoadState(file) == IF file = <<>> THEN DefaultState ELSE file[1]

\* save_state(st, d)
SaveState(s) == <<s>>

\* within(dt, a, b)
Within(dt, a, b) == a <= dt /\ dt <= b

\* compute_opening_range(df, open_ts, orb_end)
OrbBarsInclusive(df) ==
    {i \in 1..Len(df) : df[i].ts >= SessionOpen /\ df[i].ts <= OrbEnd}
OrbBars(df) == {i \in 1..Len(df) : df[i].ts >= SessionOpen /\ df[i].ts < OrbEnd}
SetMax(S) == CHOOSE x \in S : \A y \in S : y <= x
SetMin(S) == CHOOSE x \in S : \A y \in S : x <= y
ComputeOpeningRange(df) ==
    IF OrbBars(df) = {} THEN None
    ELSE Some([high |-> SetMax({df[i].h : i \in OrbBars(df)}),
               low  |-> SetMin({df[i].l : i \in OrbBars(df)})])

\* process_mask: the candles newer than last_processed_ts, or every candle
\* from the session open when there is none.  last_processed_ts is only
\* ever written by isoformat(), so the except branch of line 244 is dead.
ProcessMaskFromOpen(s, b) == b.ts >= SessionOpen
ProcessMask(s, b) ==
    IF s.last_processed_ts # None
    THEN b.ts > FromIsoFormat(s.last_processed_ts)
    ELSE b.ts >= SessionOpen
Candles(df, s) == SelectSeq(df, LAMBDA b : ProcessMask(s, b))

\* in_window, line 252
InWindowNoEnd(s, ts) == ts >= TradeStart
InWindow(s, ts) ==
    Within(ts, TradeStart, TradeEnd) \/ (s.trade_open /\ ts <= TradeEnd)

\* ------------------------------------------------------------ entry logic
\* Guard of the entry block, line 260.
EntryAllowedNoOneShot(s, ts) == ~s.trade_open /\ ts >= TradeStart
EntryAllowed(s, ts) ==
    ~s.trade_open /\ ~s.trade_executed /\ ts >= TradeStart

\* Long entry at candle close, lines 263-270 (max(x, -inf) is x).
EntryLong(s, bar) ==
    [s EXCEPT !.trade_open = TRUE, !.trade_executed = TRUE,
              !.direction = "long", !.entry_time = IsoFormat(bar.ts),
              !.entry_price = Some(bar.c), !.watermark_price = Some(bar.c),
              !.stop_price = Some(bar.c - TRAIL_DISTANCE_POINTS),
              !.be_triggered = FALSE]

\* Short entry at candle close, lines 273-280 (min(x, inf) is x).
EntryShort(s, bar) ==
    [s EXCEPT !.trade_open = TRUE, !.trade_executed = TRUE,
              !.direction = "short", !.entry_time = IsoFormat(bar.ts),
              !.entry_price = Some(bar.c), !.watermark_price = Some(bar.c),
              !.stop_price = Some(bar.c + TRAIL_DISTANCE_POINTS),
              !.be_triggered = FALSE]

\* The if / elif of lines 261-280: the long level is tested first.
BreakoutShortFirst(s, bar, ll, sl) ==
    IF bar.l <= sl THEN EntryShort(s, bar)
    ELSE IF bar.h >= ll THEN EntryLong(s, bar)
    ELSE s
Breakout(s, bar, ll, sl) ==
    IF bar.h >= ll THEN EntryLong(s, bar)
    ELSE IF bar.l <= sl THEN EntryShort(s, bar)
    ELSE s

\* Entry logic, lines 259-280.
Entry(s, bar, ll, sl) ==
    IF EntryAllowed(s, bar.ts) THEN Breakout(s, bar, ll, sl) ELSE s

\* ------------------------------------------------------- open-trade logic
\* Watermark and trailing stop of a long, lines 289-293.
TrailLongFromBar(s, bar) ==
    [s EXCEPT !.watermark_price = Some(bar.h),
              !.stop_price = Some(bar.h - TRAIL_DISTANCE_POINTS)]
TrailLong(s, bar) ==
    LET wm == IF bar.h > Val(s.watermark_price)
              THEN bar.h ELSE Val(s.watermark_price)
        new_trail == wm - TRAIL_DISTANCE_POINTS
    IN  [s EXCEPT !.watermark_price = Some(wm),
                  !.stop_price = Some(Max(Val(s.stop_price), new_trail))]

\* Watermark and trailing stop of a short, lines 332-335.
TrailShort(s, bar) ==
    LET wm == IF bar.l < Val(s.watermark_price)
              THEN bar.l ELSE Val(s.watermark_price)
        new_trail == wm + TRAIL_DISTANCE_POINTS
    IN  [s EXCEPT !.watermark_price = Some(wm),
                  !.stop_price = Some(Min(Val(s.stop_price), new_trail))]

\* Break-even trigger of a long, lines 295-297.
BreakevenLongNoFlag(s) ==
    IF ~s.be_triggered
       /\ Val(s.watermark_price) - Val(s.entry_price) >= BREAKEVEN_TRIGGER_POINTS
    THEN [s EXCEPT !.stop_price = Some(Max(Val(s.stop_price), Val(s.entry_price)))]
    ELSE s
BreakevenLong(s) ==
    IF ~s.be_triggered
       /\ Val(s.watermark_price) - Val(s.entry_price) >= BREAKEVEN_TRIGGER_POINTS
    THEN [s EXCEPT !.stop_price = Some(Max(Val(s.stop_price), Val(s.entry_price))),
                   !.be_triggered = TRUE]
    ELSE s

\* Break-even trigger of a short, lines 336-338.
BreakevenShort(s) ==
    IF ~s.be_triggered
       /\ Val(s.entry_price) - Val(s.watermark_price) >= BREAKEVEN_TRIGGER_POINTS
    THEN [s EXCEPT !.stop_price = Some(Min(Val(s.stop_price), Val(s.entry_price))),
                   !.be_triggered = TRUE]
    ELSE s

\* Exit checks of a long, lines 298-310: None, or the exit's reason and price.
ExitLongStopFirst(s, bar) ==
    LET tp_price == Val(s.entry_price) + TAKE_PROFIT_POINTS
    IN  IF bar.l <= Val(s.stop_price)
        THEN Some([reason |-> "TrailingStop", price |-> Val(s.stop_price)])
        ELSE IF bar.h >= tp_price
        THEN Some([reason |-> "TP", price |-> tp_price])
        ELSE IF bar.ts >= TradeEnd
        THEN Some([reason |-> "EOD", price |-> bar.c])
        ELSE None
ExitLongFillAtHigh(s, bar) ==
    LET tp_price == Val(s.entry_price) + TAKE_PROFIT_POINTS
    IN  IF bar.h >= tp_price
        THEN Some([reason |-> "TP", price |-> bar.h])
        ELSE IF bar.l <= Val(s.stop_price)
        THEN Some([reason |-> "TrailingStop", price |-> Val(s.stop_price)])
        ELSE IF bar.ts >= TradeEnd
        THEN Some([reason |-> "EOD", price |-> bar.c])
        ELSE None
ExitLongNoEod(s, bar) ==
    LET tp_price == Val(s.entry_price) + TAKE_PROFIT_POINTS
    IN  IF bar.h >= tp_price
        THEN Some([reason |-> "TP", price |-> tp_price])
        ELSE IF bar.l <= Val(s.stop_price)
        THEN Some([reason |-> "TrailingStop", price |-> Val(s.stop_price)])
        ELSE IF bar.ts > TradeEnd
        THEN Some([reason |-> "EOD", price |-> bar.c])
        ELSE None
ExitLong(s, bar) ==
    LET tp_price == Val(s.entry_price) + TAKE_PROFIT_POINTS
    IN  IF bar.h >= tp_price
        THEN Some([reason |-> "TP", price |-> tp_price])
        ELSE IF bar.l <= Val(s.stop_price)
        THEN Some([reason |-> "TrailingStop", price |-> Val(s.stop_price)])
        ELSE IF bar.ts >= TradeEnd
        THEN Some([reason |-> "EOD", price |-> bar.c])
        ELSE None

\* Exit checks of a short, lines 339-350.
ExitShort(s, bar) ==
    LET tp_price == Val(s.entry_price) - TAKE_PROFIT_POINTS
    IN  IF bar.l <= tp_price
        THEN Some([reason |-> "TP", price |-> tp_price])
        ELSE IF bar.h >= Val(s.stop_price)
        THEN Some([reason |-> "TrailingStop", price |-> Val(s.stop_price)])
        ELSE IF bar.ts >= TradeEnd
        THEN Some([reason |-> "EOD", price |-> bar.c])
        ELSE None

\* row_out, lines 313-325 and 353-365.  Prices are whole points, so
\* round(x, 2) leaves them as they are.
RowOut(s, bar, ex) ==
    LET entry == Val(s.entry_price)
        pnl_points == IF s.direction = "long"
                      THEN ex.price - entry ELSE entry - ex.price
    IN  [date |-> s.session_date, direction |-> s.direction,
         entry_time |-> s.entry_time, entry_price |-> entry,
         exit_time |-> IsoFormat(bar.ts), exit_price |-> ex.price,
         pnl_points |-> pnl_points, pnl_usd |-> pnl_points * POINT_VALUE,
         exit_reason |-> ex.reason]

\* The state change of an exit, lines 328-329 and 368-369.
CloseTradeClearing(s) ==
    [s EXCEPT !.trade_open = FALSE, !.direction = "None",
              !.watermark_price = None]
CloseTrade(s) == [s EXCEPT !.trade_open = FALSE, !.direction = "None"]

\* append_trade_log(d, row)
AppendTradeLog(log, row) == Append(log, row)

\* update_summary(row): concatenate, keep the last row of each date, keep
\* the last 10 dates.  Only one session date is modelled.
UpdateSummary(cur, row) ==
    LET new == [date |-> row.date, pnl_points |-> row.pnl_points,
                win |-> IF row.pnl_points > 0 THEN 1 ELSE 0]
    IN  Append(SelectSeq(cur, LAMBDA r : r.date # row.date), new)

\* The state after the watermark, trailing and break-even updates of the
\* open trade, before the exit checks.
Tightened(s, bar) ==
    IF s.direction = "long" THEN BreakevenLong(TrailLong(s, bar))
    ELSE IF s.direction = "short" THEN BreakevenShort(TrailShort(s, bar))
    ELSE s

\* The exit of the open trade on this bar, or None.
ExitOf(s, bar) ==
    IF s.direction = "long" THEN ExitLong(Tightened(s, bar), bar)
    ELSE IF s.direction = "short" THEN ExitShort(Tightened(s, bar), bar)
    ELSE None

\* ---------------------------------------------------------------- actions
Init ==
    /\ today_df = <<>>
    /\ stateFile = <<>>
    /\ tradeLog = <<>>
    /\ summary = <<>>
    /\ latest = "none"
    /\ pc = "idle"
    /\ st = DefaultState
    /\ candles = <<>>
    /\ long_level = 0
    /\ short_level = 0
    /\ weekday = 0
    /\ exit = "ok"

\* The bar source publishes the next bar.  main() fetches the bars once,
\* at line 201, so a bar published during an invocation is first seen by the
\* next one: bars are published between invocations.
BarArrives ==
    /\ pc = "idle"
    /\ Len(today_df) < MaxBars
    /\ \E b \in Bars :
          /\ today_df # <<>> => b.ts > today_df[Len(today_df)].ts
          /\ Cardinality(Wide(Append(today_df, b))) <= MaxWide
          /\ today_df' = Append(today_df, b)
    /\ UNCHANGED <<stateFile, tradeLog, summary, latest, pc, st, candles,
                   long_level, short_level, weekday, exit>>

\* main(), lines 201-208: the fetch returns nothing.
StartNoDataSaving ==
    /\ pc = "idle"
    /\ weekday <= 4
    /\ latest' = "error"
    /\ stateFile' = SaveState(LoadState(stateFile))
    /\ exit' = "ok"
    /\ UNCHANGED <<today_df, tradeLog, summary, pc, st, candles,
                   long_level, short_level, weekday>>
StartNoData ==
    /\ pc = "idle"
    /\ weekday <= 4
    /\ latest' = "error"
    /\ exit' = "ok"
    /\ UNCHANGED <<today_df, stateFile, tradeLog, summary, pc, st, candles,
                   long_level, short_level, weekday>>

\* main(), lines 210-227: no bar of the opening range yet.
StartPreOrb ==
    /\ pc = "idle"
    /\ weekday <= 4
    /\ ~LoadRaises(stateFile)
    /\ ComputeOpeningRange(today_df) = None
    /\ latest' = "pre_orb"
    /\ stateFile' = SaveState(LoadState(stateFile))
    /\ exit' = "ok"
    /\ UNCHANGED <<today_df, tradeLog, summary, pc, st, candles,
                   long_level, short_level, weekday>>

\* main(), lines 210-247: load the state, compute the levels, select the
\* candles to process.
StartLoop ==
    /\ pc = "idle"
    /\ weekday <= 4
    /\ ~LoadRaises(stateFile)
    /\ ComputeOpeningRange(today_df) # None
    /\ st' = LoadState(stateFile)
    /\ long_level' = Val(ComputeOpeningRange(today_df)).high + OFFSET_POINTS
    /\ short_level' = Val(ComputeOpeningRange(today_df)).low - OFFSET_POINTS
    /\ candles' = Candles(today_df, LoadState(stateFile))
    /\ pc' = "loop"
    /\ UNCHANGED <<today_df, stateFile, tradeLog, summary, latest, weekday,
                   exit>>

\* Loop body, lines 250-255: a candle outside the trading window.
SkipBar ==
    /\ pc = "loop"
    /\ candles # <<>>
    /\ ~InWindow(st, Head(candles).ts)
    /\ st' = [st EXCEPT !.last_processed_ts = IsoFormat(Head(candles).ts)]
    /\ candles' = Tail(candles)
    /\ UNCHANGED <<today_df, stateFile, tradeLog, summary, latest, pc,
                   long_level, short_level, weekday, exit>>

\* Loop body, lines 250-280: a candle inside the window, up to the end of
\* the entry logic.
EntryStep ==
    /\ pc = "loop"
    /\ candles # <<>>
    /\ InWindow(st, Head(candles).ts)
    /\ st' = Entry(st, Head(candles), long_level, short_level)
    /\ pc' = "manage"
    /\ UNCHANGED <<today_df, stateFile, tradeLog, summary, latest, candles,
                   long_level, short_level, weekday, exit>>

\* Loop body, lines 282-371: manage the open trade on the same candle,
\* record an exit, advance last_processed_ts.
ManageStep ==
    /\ pc = "manage"
    /\ LET bar == Head(candles)
           ex == IF st.trade_open THEN ExitOf(st, bar) ELSE None
           s1 == IF st.trade_open THEN Tightened(st, bar) ELSE st
           s2 == IF ex # None THEN CloseTrade(s1) ELSE s1
       IN  /\ st' = [s2 EXCEPT !.last_processed_ts = IsoFormat(bar.ts)]
           /\ tradeLog' = IF ex # None
                          THEN AppendTradeLog(tradeLog, RowOut(s1, bar, Val(ex)))
                          ELSE tradeLog
           /\ summary' = IF ex # None
                         THEN UpdateSummary(summary, RowOut(s1, bar, Val(ex)))
                         ELSE summary
    /\ candles' = Tail(candles)
    /\ pc' = "loop"
    /\ UNCHANGED <<today_df, stateFile, latest, long_level, short_level,
                   weekday, exit>>

\* main(), lines 373-423: the snapshot and save_state.  The locals die with
\* the process.
Finish ==
    /\ pc = "loop"
    /\ candles = <<>>
    /\ latest' = "active"
    /\ stateFile' = SaveState(st)
    /\ pc' = "idle"
    /\ st' = DefaultState
    /\ long_level' = 0
    /\ short_level' = 0
    /\ exit' = "ok"
    /\ UNCHANGED <<today_df, tradeLog, summary, candles, weekday>>

Next ==
    \/ BarArrives
    \/ StartNoData
    \/ StartPreOrb
    \/ StartLoop
    \/ SkipBar
    \/ EntryStep
    \/ ManageStep
    \/ Finish

Spec == Init /\ [][Next]_vars

\* ------------------------------------------------ non-operating days
\* Session dates explored when the day of the week matters: a Friday and a
\* Saturday, either side of the guard of line 192.
Weekdays == {4, 5}

InitDays ==
    /\ today_df = <<>>
    /\ stateFile = <<>>
    /\ tradeLog = <<>>
    /\ summary = <<>>
    /\ latest = "none"
    /\ pc = "idle"
    /\ st = DefaultState
    /\ candles = <<>>
    /\ long_level = 0
    /\ short_level = 0
    /\ weekday \in Weekdays
    /\ exit = "ok"

\* main(), lines 191-198: only run on weekdays.
StartWeekend ==
    /\ pc = "idle"
    /\ weekday > 4
    /\ latest' = "inactive"
    /\ exit' = "ok"
    /\ UNCHANGED <<today_df, stateFile, tradeLog, summary, pc, st, candles,
                   long_level, short_level, weekday>>

NextDays ==
    \/ BarArrives
    \/ StartWeekend
    \/ StartNoData
    \/ StartPreOrb
    \/ StartLoop
    \/ SkipBar
    \/ EntryStep
    \/ ManageStep
    \/ Finish

SpecDays == InitDays /\ [][NextDays]_vars

\* --------------------------------------------------- abnormal termination
\* Rows of the trade log up to which abnormal terminations are explored.
MaxLogRows == 2

\* The process is gone: its locals with it.
Dies(how) ==
    /\ pc' = "idle"
    /\ st' = DefaultState
    /\ candles' = <<>>
    /\ long_level' = 0
    /\ short_level' = 0
    /\ exit' = how

\* The process is killed inside the candle loop, lines 250-371: what it
\* appended to the trade log and the summary stays, the state is not saved.
Kill ==
    /\ pc \in {"loop", "manage"}
    /\ pc = "loop" => candles # <<>>
    /\ Len(tradeLog) < MaxLogRows
    /\ Dies("killed")
    /\ UNCHANGED <<today_df, stateFile, tradeLog, summary, latest, weekday>>

\* main(), lines 417-422: json.load of summary.json or write_latest raises.
\* Neither is inside a try, and save_state comes after them.
SnapshotFails ==
    /\ pc = "loop"
    /\ candles = <<>>
    /\ Len(tradeLog) < MaxLogRows
    /\ Dies("snapshot")
    /\ UNCHANGED <<today_df, stateFile, tradeLog, summary, latest, weekday>>

\* save_state, lines 90-92, interrupted: open(p, "w") has truncated the file
\* and json.dump has not finished.
SaveInterrupted ==
    /\ pc = "loop"
    /\ candles = <<>>
    /\ latest' = "active"
    /\ stateFile' = <<Corrupt>>
    /\ Dies("killed")
    /\ UNCHANGED <<today_df, tradeLog, summary, weekday>>

\* main(), line 213: load_state raises on the corrupt file and main() ends
\* with the exception.
LoadFails ==
    /\ pc = "idle"
    /\ weekday <= 4
    /\ LoadRaises(stateFile)
    /\ exit' = "load_state"
    /\ UNCHANGED <<today_df, stateFile, tradeLog, summary, latest, pc, st,
                   candles, long_level, short_level, weekday>>

NextCrash ==
    \/ BarArrives
    \/ StartNoData
    \/ StartPreOrb
    \/ StartLoop
    \/ SkipBar
    \/ EntryStep
    \/ ManageStep
    \/ Finish
    \/ Kill
    \/ SnapshotFails
    \/ SaveInterrupted
    \/ LoadFails

SpecCrash == Init /\ [][NextCrash]_vars

\* --------------------------------------------- a first run late in the day
\* The first invocation of the day is made after the opening range and the
\* breakout bar have been published: the feed already holds a flat
\* opening-range bar and a flat bar beyond the breakout level, on the long
\* side or on the short side, and no state has been saved yet.
MaxLateBars == 4
Flat(t, p) == [ts |-> t, h |-> p, l |-> p, c |-> p]
LateFeeds ==
    {<<Flat(SessionOpen, 80), Flat(TradeStart, 85)>>,
     <<Flat(SessionOpen, 105), Flat(TradeStart, 100)>>}

InitLate ==
    /\ today_df \in LateFeeds
    /\ stateFile = <<>>
    /\ tradeLog = <<>>
    /\ summary = <<>>
    /\ latest = "none"
    /\ pc = "idle"
    /\ st = DefaultState
    /\ candles = <<>>
    /\ long_level = 0
    /\ short_level = 0
    /\ weekday = 0
    /\ exit = "ok"

BarArrivesLate ==
    /\ pc = "idle"
    /\ Len(today_df) < MaxLateBars
    /\ \E b \in Bars :
          /\ b.ts > today_df[Len(today_df)].ts
          /\ Cardinality(Wide(Append(today_df, b))) <= MaxWide
          /\ today_df' = Append(today_df, b)
    /\ UNCHANGED <<stateFile, tradeLog, summary, latest, pc, st, candles,
                   long_level, short_level, weekday, exit>>

\* The feed holds an opening-range bar, so lines 215-227 are not reached.
NextLate ==
    \/ BarArrivesLate
    \/ StartNoData
    \/ StartLoop
    \/ SkipBar
    \/ EntryStep
    \/ ManageStep
    \/ Finish

SpecLate == InitLate /\ [][NextLate]_vars

\* ------------------------------------------------------------ properties
\* The session state as the program holds it: main()'s st while an
\* invocation runs, the persisted one between invocations.
Cur == IF pc = "idle" THEN LoadState(stateFile) ELSE st

\* The candle the loop body is working on.
CurBar == Head(candles)

NoTrade(s) == ~s.trade_executed /\ ~s.trade_open
TradeOpen(s) == s.trade_open
TradeClosed(s) == s.trade_executed /\ ~s.trade_open

\* The candle being managed is the one the trade was entered on.
OnEntryBar ==
    pc = "manage" /\ st.trade_open /\ st.entry_time = IsoFormat(CurBar.ts)

\* This step appends exactly one row to the trade log.
EmitsOne ==
    /\ Len(tradeLog') = Len(tradeLog) + 1
    /\ SubSeq(tradeLog', 1, Len(tradeLog)) = tradeLog
LastRow == tradeLog'[Len(tradeLog')]

\* C1: over any sequence of serialized invocations of one session date at
\* most one completed trade is recorded, and a step records a trade exactly
\* when it closes the position (one row per close, no row otherwise).
C1_OneTradeOnce ==
    /\ [](Len(tradeLog) <= 1 /\ Len(summary) <= 1)
    /\ [][IF Cur.trade_open /\ ~Cur'.trade_open
          THEN EmitsOne
          ELSE tradeLog' = tradeLog]_vars

\* C1 witness: the trade is closed and recorded, and a later invocation is
\* about to process an in-window candle that breaks out again.
C1_Witness ==
    /\ pc = "loop" /\ candles # <<>>
    /\ Len(tradeLog) = 1
    /\ TradeClosed(st)
    /\ stateFile # <<>> /\ TradeClosed(stateFile[1])
    /\ InWindow(st, CurBar.ts)
    /\ CurBar.h >= long_level

\* C2: while a trade is open the stop never loosens: every step leaves the
\* stop of an open long at least where it was and the stop of an open short
\* at most where it was; the persisted stop likewise from one save to the next.
StopTightens(s, t) ==
    /\ s.direction = "long" => Val(t.stop_price) >= Val(s.stop_price)
    /\ s.direction = "short" => Val(t.stop_price) <= Val(s.stop_price)
C2_StopNeverLoosens ==
    /\ [][Cur.trade_open => StopTightens(Cur, Cur')]_vars
    /\ [][(stateFile # <<>> /\ stateFile[1].trade_open)
            => StopTightens(stateFile[1], stateFile'[1])]_vars

\* C2 witness: an open trade whose stop has been moved by the breakeven /
\* trailing step and is still open.
C2_Witness ==
    /\ pc = "loop" /\ st.trade_open /\ st.be_triggered
    /\ \/ st.direction = "long"
          /\ Val(st.stop_price) > Val(st.entry_price) - TRAIL_DISTANCE_POINTS
       \/ st.direction = "short"
          /\ Val(st.stop_price) < Val(st.entry_price) + TRAIL_DISTANCE_POINTS

\* No bar of the feed is newer than the persisted last_processed_ts.
NoNewBars ==
    /\ stateFile # <<>>
    /\ stateFile[1].last_processed_ts # None
    /\ \A i \in 1..Len(today_df) :
          today_df[i].ts <= FromIsoFormat(stateFile[1].last_processed_ts)

\* C3: an invocation on a feed with no bar newer than the persisted
\* last_processed_ts leaves the persisted state, the trade log and the
\* summary as they are, and its in-memory state is the persisted one
\* throughout.
C3_Idempotent ==
    [][NoNewBars =>
          /\ stateFile' = stateFile
          /\ tradeLog' = tradeLog
          /\ summary' = summary
          /\ pc' # "idle" => st' = stateFile[1]]_vars

\* C3 witness: such an invocation is running, on a trade that is still open
\* and was managed on more than its entry bar.
C3_Witness ==
    /\ NoNewBars
    /\ pc = "loop"
    /\ st.trade_open
    /\ st.entry_time # st.last_processed_ts

\* C4: the lifecycle only moves NoTrade -> TradeOpen -> TradeClosed: no step
\* takes the session state from NoTrade to TradeClosed, and none leaves
\* TradeClosed.
C4_Lifecycle ==
    /\ [][~(NoTrade(Cur) /\ TradeClosed(Cur'))]_vars
    /\ [][TradeClosed(Cur) => TradeClosed(Cur')]_vars
    /\ [][TradeOpen(Cur) => ~NoTrade(Cur')]_vars

\* C4 witness: the trade has closed and the entry logic has just run on a
\* later in-window candle that touches a breakout level.
C4_Witness ==
    /\ pc = "manage"
    /\ TradeClosed(st)
    /\ st.entry_time # IsoFormat(CurBar.ts)
    /\ (CurBar.h >= long_level \/ CurBar.l <= short_level)

\* C5: a bar that triggers entry does not also close the trade: the
\* management of the entry bar leaves the trade open and records no trade.
C5_EntryBarStaysOpen ==
    [][OnEntryBar => (st'.trade_open /\ tradeLog' = tradeLog)]_vars

\* C6: after a bar that opens a long at its close c has been processed, the
\* state has entry_price = c, watermark_price = c and
\* stop_price = c - trail distance; mirrored for a short.
C6_EntryBarState ==
    [][OnEntryBar =>
          /\ st'.entry_price = Some(CurBar.c)
          /\ st'.watermark_price = Some(CurBar.c)
          /\ st.direction = "long" =>
                st'.stop_price = Some(CurBar.c - TRAIL_DISTANCE_POINTS)
          /\ st.direction = "short" =>
                st'.stop_price = Some(CurBar.c + TRAIL_DISTANCE_POINTS)]_vars

\* C7 as stated: watermark_price is defined exactly when trade_open is true.
C7_WatermarkIffOpen ==
    /\ (st.watermark_price # None) <=> st.trade_open
    /\ (LoadState(stateFile).watermark_price # None)
          <=> LoadState(stateFile).trade_open

\* C7 as amended: watermark_price is defined exactly when a trade has been
\* entered this session (trade_executed); it is defined while the trade is
\* open and keeps its last value after the trade has closed.
WatermarkIffExecuted(s) ==
    /\ (s.watermark_price # None) <=> s.trade_executed
    /\ s.trade_open => s.watermark_price # None
C7_WatermarkIffExecuted ==
    /\ WatermarkIffExecuted(st)
    /\ WatermarkIffExecuted(LoadState(stateFile))

\* C7 witness: a closed trade, persisted, whose watermark is still there.
C7_Witness ==
    /\ stateFile # <<>>
    /\ TradeClosed(stateFile[1])
    /\ stateFile[1].watermark_price # None
    /\ Len(tradeLog) = 1

\* C8: when one bar meets both the take-profit and the stop condition of the
\* open trade, the recorded trade has exit reason TP and exit price
\* entry +/- take-profit.
BothHit ==
    /\ pc = "manage" /\ st.trade_open
    /\ \/ /\ st.direction = "long"
          /\ CurBar.h >= Val(st.entry_price) + TAKE_PROFIT_POINTS
          /\ CurBar.l <= Val(st'.stop_price)
       \/ /\ st.direction = "short"
          /\ CurBar.l <= Val(st.entry_price) - TAKE_PROFIT_POINTS
          /\ CurBar.h >= Val(st'.stop_price)
C8_TakeProfitFirst ==
    [][BothHit =>
          /\ EmitsOne
          /\ LastRow.exit_reason = "TP"
          /\ LastRow.exit_price =
                IF st.direction = "long"
                THEN Val(st.entry_price) + TAKE_PROFIT_POINTS
                ELSE Val(st.entry_price) - TAKE_PROFIT_POINTS]_vars

\* C8 witness: a recorded take-profit on a bar, later than the entry bar,
\* that also reached the stop.
C8_Witness ==
    /\ pc = "loop"
    /\ Len(tradeLog) = 1
    /\ tradeLog[1].exit_reason = "TP"
    /\ tradeLog[1].exit_time # tradeLog[1].entry_time
    /\ \E i \in 1..Len(today_df) :
          /\ IsoFormat(today_df[i].ts) = tradeLog[1].exit_time
          /\ st.last_processed_ts = tradeLog[1].exit_time
          /\ \/ tradeLog[1].direction = "long"
                /\ today_df[i].l <= Val(st.stop_price)
             \/ tradeLog[1].direction = "short"
                /\ today_df[i].h >= Val(st.stop_price)

\* C9: a bar on which entry is allowed and that touches both the long and
\* the short level opens a long.
BothLevels ==
    /\ pc = "loop" /\ candles # <<>> /\ InWindow(st, CurBar.ts)
    /\ ~st.trade_open /\ ~st.trade_executed /\ CurBar.ts >= TradeStart
    /\ CurBar.h >= long_level
    /\ CurBar.l <= short_level
C9_LongFirst ==
    [][BothLevels => (st'.trade_open /\ st'.direction = "long")]_vars

\* C9 witness: a long just entered on a bar that touched both levels.
C9_Witness ==
    /\ OnEntryBar
    /\ st.direction = "long"
    /\ CurBar.h >= long_level
    /\ CurBar.l <= short_level

\* C10: a trade open when the bar at trade_end is processed, with neither
\* take-profit nor stop hit on that bar, is closed on it at the bar's close
\* with reason EOD.
EodCase ==
    /\ pc = "manage" /\ st.trade_open
    /\ CurBar.ts = TradeEnd
    /\ \/ /\ st.direction = "long"
          /\ CurBar.h < Val(st.entry_price) + TAKE_PROFIT_POINTS
          /\ CurBar.l > Val(st'.stop_price)
       \/ /\ st.direction = "short"
          /\ CurBar.l > Val(st.entry_price) - TAKE_PROFIT_POINTS
          /\ CurBar.h < Val(st'.stop_price)
C10_EndOfDayExit ==
    [][EodCase =>
          /\ ~st'.trade_open
          /\ EmitsOne
          /\ LastRow.exit_reason = "EOD"
          /\ LastRow.exit_price = CurBar.c
          /\ LastRow.exit_time = IsoFormat(TradeEnd)]_vars

\* C10 witness: a trade entered on an earlier bar and closed EOD on the
\* trade_end bar.
C10_Witness ==
    /\ Len(tradeLog) = 1
    /\ tradeLog[1].exit_reason = "EOD"
    /\ tradeLog[1].exit_time = IsoFormat(TradeEnd)
    /\ tradeLog[1].entry_time # tradeLog[1].exit_time

\* C11: an invocation (with data) that finds a state file it cannot parse
\* goes on with a fresh default TradeState instead of failing: it does not
\* end in load_state's exception, it enters the loop with the default state
\* or, before the opening range, saves the default state.
C11_CorruptMeansFresh ==
    [][(pc = "idle" /\ LoadRaises(stateFile) /\ today_df' = today_df
            /\ latest' # "error")
          => /\ exit' # "load_state"
             /\ pc' = "loop" => st' = DefaultState
             /\ pc' = "idle" => stateFile' = SaveState(DefaultState)]_vars

\* C12: whenever an invocation ends at save_state, by completing it or by
\* dying in it, the stored snapshot is the previous one or the complete new
\* one.
C12_SaveIsAtomic ==
    [][(pc = "loop" /\ candles = <<>> /\ pc' = "idle")
          => stateFile' \in {stateFile, SaveState(st)}]_vars

\* C13: a run that reached the candle loop and then fails in the snapshot
\* step (summary read, latest.json write) has nevertheless saved the state
\* it mutated.
C13_SaveDespiteSnapshot ==
    [][(pc = "loop" /\ candles = <<>> /\ exit' = "snapshot")
          => stateFile' = SaveState(st)]_vars

\* No bar of the feed lies in the opening-range window [open, orb_end).
RangeNotReady ==
    \A i \in 1..Len(today_df) :
       ~(today_df[i].ts >= SessionOpen /\ today_df[i].ts < OrbEnd)

\* C14: an invocation with data but without a bar of the opening range
\* reports pre_orb, stays out of the candle loop, records no trade and
\* persists the state exactly as loaded.
C14_PreOrb ==
    [][(pc = "idle" /\ RangeNotReady /\ today_df' = today_df
            /\ latest' # "error")
          => /\ latest' = "pre_orb"
             /\ pc' = "idle"
             /\ tradeLog' = tradeLog
             /\ summary' = summary
             /\ stateFile' = <<LoadState(stateFile)>>]_vars

\* C14 witness: bars have arrived, none of them in the opening-range window,
\* and the invocation has reported pre_orb and saved the default state.
C14_Witness ==
    /\ today_df # <<>>
    /\ RangeNotReady
    /\ latest = "pre_orb"
    /\ stateFile = <<DefaultState>>

\* C15: on a weekend nothing but the status changes, and the status can
\* only become inactive; and every step that reports inactive or error
\* leaves the persisted state, the trade log and the summary alone and
\* processes no bar.
C15_StatusOnly ==
    /\ [][weekday > 4
            => /\ UNCHANGED <<stateFile, tradeLog, summary, pc, st, candles>>
               /\ latest' \in {latest, "inactive"}]_vars
    /\ [][(latest' # latest /\ latest' \in {"inactive", "error"})
            => UNCHANGED <<stateFile, tradeLog, summary, pc, st, candles>>]_vars

\* C15 witness: the bar source returned nothing to an invocation made while
\* a trade is open in the persisted state, with unprocessed bars waiting.
C15_Witness ==
    /\ latest = "error"
    /\ pc = "idle"
    /\ stateFile # <<>>
    /\ stateFile[1].trade_open
    /\ ~NoNewBars

\* C16: every iteration of the candle loop leaves last_processed_ts at the
\* candle's timestamp; a candle outside the trading window, with no trade
\* open, changes nothing else and records no trade.
C16_HighWaterMark ==
    /\ [][(candles # <<>> /\ candles' = Tail(candles))
            => st'.last_processed_ts = IsoFormat(CurBar.ts)]_vars
    /\ [][(pc = "loop" /\ candles # <<>> /\ ~st.trade_open
              /\ ~Within(CurBar.ts, TradeStart, TradeEnd))
            => /\ st' = [st EXCEPT !.last_processed_ts = IsoFormat(CurBar.ts)]
               /\ candles' = Tail(candles)
               /\ tradeLog' = tradeLog]_vars

\* C16 witness: a candle after trade_end has been processed with no trade
\* taken; the opening-range candle before it was outside the window too.
C16_Witness ==
    /\ pc = "loop"
    /\ NoTrade(st)
    /\ st.last_processed_ts = IsoFormat(TradeEnd + 1)

\* Favourable excursion of the open trade.
Excursion(s) ==
    IF s.direction = "long"
    THEN Val(s.watermark_price) - Val(s.entry_price)
    ELSE Val(s.entry_price) - Val(s.watermark_price)

BreakevenBinds(s) ==
    s.trade_open =>
       /\ Excursion(s) >= BREAKEVEN_TRIGGER_POINTS => s.be_triggered
       /\ (s.be_triggered /\ s.direction = "long")
             => Val(s.stop_price) >= Val(s.entry_price)
       /\ (s.be_triggered /\ s.direction = "short")
             => Val(s.stop_price) <= Val(s.entry_price)

\* C17: an open trade whose excursion has reached the breakeven trigger has
\* be_triggered set and its stop at entry or better; be_triggered, once set,
\* stays set for the rest of the trade; and from then on every step leaves
\* the stop where it was or tighter, never back beyond the entry price.
C17_BreakevenBinds ==
    /\ [](BreakevenBinds(st) /\ BreakevenBinds(LoadState(stateFile)))
    /\ [][(Cur.trade_executed /\ Cur.be_triggered) => Cur'.be_triggered]_vars
    /\ [][(Cur.trade_open /\ Cur.be_triggered /\ Cur.direction = "long")
            => /\ Val(Cur'.stop_price) >= Val(Cur.stop_price)
               /\ Val(Cur'.stop_price) >= Val(Cur.entry_price)
               /\ Val(Cur'.stop_price) >=
                     Val(Cur'.watermark_price) - TRAIL_DISTANCE_POINTS]_vars
    /\ [][(Cur.trade_open /\ Cur.be_triggered /\ Cur.direction = "short")
            => /\ Val(Cur'.stop_price) <= Val(Cur.stop_price)
               /\ Val(Cur'.stop_price) <= Val(Cur.entry_price)
               /\ Val(Cur'.stop_price) <=
                     Val(Cur'.watermark_price) + TRAIL_DISTANCE_POINTS]_vars

\* C17 witness: the bar after the entry bar took the excursion exactly to
\* the breakeven trigger and left the trade open with its stop at entry; the
\* bar after that advanced the watermark again and the stop has followed it
\* beyond the entry price.
C17_Witness ==
    /\ pc = "loop"
    /\ candles = <<>>
    /\ Len(today_df) = 4
    /\ today_df[3].h - Val(st.entry_price) = BREAKEVEN_TRIGGER_POINTS
    /\ today_df[3].l > Val(st.entry_price)
    /\ st.be_triggered
    /\ Val(st.watermark_price) > today_df[3].h
    /\ Val(st.stop_price) = Val(st.watermark_price) - TRAIL_DISTANCE_POINTS
    /\ Val(st.stop_price) > Val(st.entry_price)

\* C18: the trade log never holds two rows for the same position, also
\* after an invocation died between recording the trade and saving the
\* state.
C18_NoDuplicateRows ==
    \A i, j \in 1..Len(tradeLog) :
        tradeLog[i].entry_time = tradeLog[j].entry_time => i = j

\* C19: once every bar of a feed that reaches trade_end or later has been
\* processed and saved, no trade is open.
C19_FlatAfterSession ==
    (/\ pc = "idle"
     /\ NoNewBars
     /\ \E i \in 1..Len(today_df) : today_df[i].ts >= TradeEnd)
    => ~stateFile[1].trade_open

StopWithinTrail(s) ==
    s.trade_open =>
       /\ s.direction = "long" =>
            /\ Val(s.watermark_price) - TRAIL_DISTANCE_POINTS <= Val(s.stop_price)
            /\ Val(s.stop_price) <= Val(s.watermark_price)
            /\ Val(s.entry_price) - TRAIL_DISTANCE_POINTS <= Val(s.stop_price)
       /\ s.direction = "short" =>
            /\ Val(s.watermark_price) + TRAIL_DISTANCE_POINTS >= Val(s.stop_price)
            /\ Val(s.stop_price) >= Val(s.watermark_price)
            /\ Val(s.entry_price) + TRAIL_DISTANCE_POINTS >= Val(s.stop_price)

\* C20: with well-formed bars every recorded trade has
\* -trail distance <= pnl_points <= take-profit, and the stop of an open
\* trade lies within the trail distance of the watermark, on the losing
\* side of it, and within the trail distance of the entry.
C20_BoundedOutcome ==
    /\ \A i \in 1..Len(tradeLog) :
          /\ tradeLog[i].pnl_points >= -TRAIL_DISTANCE_POINTS
          /\ tradeLog[i].pnl_points <= TAKE_PROFIT_POINTS
    /\ StopWithinTrail(st)
    /\ StopWithinTrail(LoadState(stateFile))

\* C20 witness: a recorded trade that lost the full trail distance.
C20_Witness ==
    /\ Len(tradeLog) = 1
    /\ tradeLog[1].pnl_points = -TRAIL_DISTANCE_POINTS
    /\ tradeLog[1].exit_reason = "TrailingStop"
====
